---- MODULE Spec2Model ----
(***************************************************************************)
(* Model of src/src/modules/today-in-history.module.ts: the two cached     *)
(* fetch-and-normalize services ServiceTodayInHistory (calendar events,    *)
(* cache keyed by "M-D", no expiry) and ServiceDoubanWeekly (weekly        *)
(* rankings, cache keyed by category, one hour TTL), and their renderers.  *)
(*                                                                         *)
(* Text is modelled as a sequence of one-character strings wherever the    *)
(* code looks inside it (year, title, desc); opaque text is a TLA+ string. *)
(***************************************************************************)
EXTENDS Integers, Sequences, FiniteSets, TLC

\* ------------------------------------------------------------------ bounds

\* Number of requests that can be in flight at once (handler activations
\* between their first await and their return).
MaxInFlight == 2
\* The clock runs from 0 to CACHE_TTL + MaxLate milliseconds.
MaxLate == 1
\* Longest raw list handed to the normalizers in SpecPure.
MaxPure == 3

\* ----------------------------------------------------------------- helpers

Nil == "nil"

EmptyMap == [k \in {} |-> Nil]

\* Map.prototype.has / get / set on a map modelled as a function whose domain
\* is the set of keys present.
MapHas(m, k) == k \in DOMAIN m

MapGet(m, k) == m[k]

MapSetAlone(m, k, v) == [x \in {k} |-> v]

MapSet(m, k, v) == [x \in DOMAIN m \cup {k} |-> IF x = k THEN v ELSE m[x]]

Abs(n) == IF n < 0 THEN -n ELSE n

DigitChars == <<"0", "1", "2", "3", "4", "5", "6", "7", "8", "9">>

IsDigit(c) == \E i \in 1..10 : DigitChars[i] = c

DigitVal(c) == (CHOOSE i \in 1..10 : DigitChars[i] = c) - 1

RECURSIVE DigitsValue(_)
DigitsValue(s) ==
    IF s = <<>> THEN 0
    ELSE 10 * DigitsValue(SubSeq(s, 1, Len(s) - 1)) + DigitVal(s[Len(s)])

AllDigits(s) == Len(s) > 0 /\ \A i \in 1..Len(s) : IsDigit(s[i])

\* JavaScript's ToNumber on a numeric text ("" is 0, "-12" is -12).
ToNumber(s) ==
    IF s = <<>> THEN 0
    ELSE IF Head(s) = "-" THEN -DigitsValue(Tail(s))
    ELSE DigitsValue(s)

\* Array.prototype.sort (stable) under a comparator (a, b) => key(a) - key(b),
\* on pairs [k |-> key, e |-> element]: x goes behind every element whose
\* comparison with it is not positive.
RECURSIVE InsertSorted(_, _)
InsertSorted(sorted, x) ==
    IF sorted = <<>> THEN <<x>>
    ELSE IF Head(sorted).k - x.k > 0
         THEN <<x>> \o sorted
         ELSE <<Head(sorted)>> \o InsertSorted(Tail(sorted), x)

RECURSIVE SortPairs(_)
SortPairs(ps) ==
    IF ps = <<>> THEN <<>>
    ELSE InsertSorted(SortPairs(SubSeq(ps, 1, Len(ps) - 1)), ps[Len(ps)])

\* s sorted by the numbers keys[i] the comparator reads from s[i].
ArraySort(s, keys) ==
    LET ps == SortPairs([i \in 1..Len(s) |-> [k |-> keys[i], e |-> s[i]]])
    IN  [i \in 1..Len(s) |-> ps[i].e]

\* All sequences over S of length at most n.
SeqsUpTo(S, n) == UNION {[1..k -> S] : k \in 0..n}

\* --------------------------------------------- ServiceTodayInHistory: data

\* The date-time a request resolves to in the Shanghai zone, dayjs(date).tz(..):
\* the model's requests name one of these calendar dates.
Dates ==
    { [y |-> 2024, m |-> 3, d |-> 14],
      [y |-> 2023, m |-> 3, d |-> 14],
      [y |-> 2024, m |-> 10, d |-> 1] }

\* String.prototype.padStart(2, '0') of a number, as dayjs's 'MM' and 'DD' do.
Pad2(n) == IF n < 10 THEN "0" \o ToString(n) ELSE ToString(n)

\* now.format('MMDD')
TodayField(date) == Pad2(date.m) \o Pad2(date.d)

\* now.format('MM')
MonthField(date) == Pad2(date.m)

\* now.format('M-D'): the cache key.
MonthAndDay(date) == ToString(date.m) \o "-" \o ToString(date.d)

\* A character is a one-character string when it is ASCII and "U+<code unit>"
\* otherwise ("U+12290" is the ideographic full stop, "U+20013" is a
\* CJK ideograph). These are the ASCII characters
\* String.fromCharCode is made to produce here.
CharOfCode ==
    [u \in {46, 60, 65} |->
        CASE u = 46 -> "."
          [] u = 60 -> "<"
          [] u = 65 -> "A"]

\* String.fromCharCode(n): the UTF-16 code unit n modulo 2^16.
FromCharCode(n) ==
    LET u == n % 65536
    IN  IF u \in DOMAIN CharOfCode THEN CharOfCode[u] ELSE "U+" \o ToString(u)

\* text.replace(/<.*?>/g, ''): from each '<', the shortest run up to the next
\* '>' on the same line is dropped; a '<' with no such '>' stays.
RECURSIVE StripTags(_)
StripTags(s) ==
    IF s = <<>> THEN <<>>
    ELSE IF Head(s) = "<"
            /\ \E j \in 2..Len(s) :
                  s[j] = ">" /\ \A i \in 2..(j - 1) : s[i] \notin {">", "\n"}
         THEN LET j == CHOOSE j \in 2..Len(s) :
                          s[j] = ">" /\ \A i \in 2..(j - 1) : s[i] \notin {">", "\n"}
              IN  StripTags(SubSeq(s, j + 1, Len(s)))
         ELSE <<Head(s)>> \o StripTags(Tail(s))

\* The index of the ';' closing an entity '&#' digits+ ';' that starts at the
\* head of s, or 0 when none starts there.
EntityEnd(s) ==
    IF Len(s) >= 4 /\ s[1] = "&" /\ s[2] = "#" /\ IsDigit(s[3])
    THEN LET k == CHOOSE k \in 3..Len(s) :
                     /\ \A i \in 3..k : IsDigit(s[i])
                     /\ (k = Len(s) \/ ~IsDigit(s[k + 1]))
         IN  IF k < Len(s) /\ s[k + 1] = ";" THEN k + 1 ELSE 0
    ELSE 0

\* text.replace(/&#(\d+);/g, (_, $1) => String.fromCharCode($1))
RECURSIVE DecodeEntities(_)
DecodeEntities(s) ==
    IF s = <<>> THEN <<>>
    ELSE LET e == EntityEnd(s)
         IN  IF e > 0
             THEN <<FromCharCode(DigitsValue(SubSeq(s, 3, e - 1)))>>
                      \o DecodeEntities(SubSeq(s, e + 1, Len(s)))
             ELSE <<Head(s)>> \o DecodeEntities(Tail(s))

transformChars(text) == DecodeEntities(StripTags(text))

\* String.prototype.endsWith for a one-character suffix.
EndsWith(s, c) == Len(s) > 0 /\ s[Len(s)] = c

\* if (!desc.endsWith('.') && !desc.endsWith(<ideographic full stop>)) desc += '...'
TerminatedAsciiOnly(desc) ==
    IF ~EndsWith(desc, ".") THEN desc \o <<".", ".", ".">> ELSE desc

Terminated(desc) ==
    IF ~EndsWith(desc, ".") /\ ~EndsWith(desc, "U+12290")
    THEN desc \o <<".", ".", ".">>
    ELSE desc

\* The comparator of todayEvents.sort reads a.year - b.year: the number each
\* textual year converts to.
YearKeySwapped(e) == -ToNumber(e.year)

YearKey(e) == ToNumber(e.year)

\* todayEvents.sort((a, b) => a.year - b.year)
SortEvents(todayEvents) ==
    ArraySort(todayEvents, [i \in 1..Len(todayEvents) |-> YearKey(todayEvents[i])])

\* The HistoryItem built from one raw event.
ModifiedEvent(e, monthAndDay) ==
    [ title |-> transformChars(e.title),
      year  |-> e.year,
      date  |-> monthAndDay,
      desc  |-> Terminated(transformChars(e.desc)),
      type  |-> e.type,
      link  |-> e.link ]

\* monthEvents?.[MM]?.[todayField] ?? []
TodayEvents(monthEvents, mm, todayField) ==
    IF mm \in DOMAIN monthEvents /\ todayField \in DOMAIN monthEvents[mm]
    THEN monthEvents[mm][todayField]
    ELSE <<>>

\* The sorted, mapped list the miss path stores and returns from.
ModifiedTodayEvents(monthEvents, date) ==
    LET sorted == SortEvents(TodayEvents(monthEvents, MonthField(date), TodayField(date)))
    IN  [i \in 1..Len(sorted) |-> ModifiedEvent(sorted[i], MonthAndDay(date))]

\* Lines 46-52: the items of the object returned on a hit, mapped from the
\* cached list.
CachedItemsRawDesc(cached) ==
    [i \in 1..Len(cached) |->
        [ title       |-> cached[i].title,
          year        |-> cached[i].year,
          description |-> cached[i].title,
          event_type  |-> cached[i].type,
          link        |-> cached[i].link ]]

CachedItems(cached) ==
    [i \in 1..Len(cached) |->
        [ title       |-> cached[i].title,
          year        |-> cached[i].year,
          description |-> cached[i].desc,
          event_type  |-> cached[i].type,
          link        |-> cached[i].link ]]

\* Lines 83-91: the items of the object returned on a miss, mapped from the
\* list just built.
ReturnedItems(events) ==
    [i \in 1..Len(events) |->
        [ title       |-> events[i].title,
          year        |-> events[i].year,
          description |-> events[i].desc,
          event_type  |-> events[i].type,
          link        |-> events[i].link ]]

\* The object #fetch returns around either list of items.
HistoryData(date, items) ==
    [ date  |-> MonthAndDay(date),
      month |-> date.m,
      day   |-> date.d,
      items |-> items ]

\* Raw upstream events: two share a year, one has a shorter, smaller year; the
\* texts carry a tag, an entity and the three kinds of ending.
RawEvents ==
    { [ title |-> <<"A">>, year |-> <<"1", "9", "9", "0">>,
        desc |-> <<"a", ".">>, type |-> "event", link |-> "l1" ],
      [ title |-> <<"<", "b", ">", "B">>, year |-> <<"2", "0", "0">>,
        desc |-> <<"b">>, type |-> "birth", link |-> "l2" ],
      [ title |-> <<"C">>, year |-> <<"1", "9", "9", "0">>,
        desc |-> <<"&", "#", "2", "0", "0", "1", "3", ";", "U+12290">>,
        type |-> "death", link |-> "l3" ] }

\* The day buckets of the model's upstream: none, one of three events out of
\* year order (two of them of one year), one of a single event.
SampleBuckets ==
    LET e1 == CHOOSE e \in RawEvents : e.link = "l1"
        e2 == CHOOSE e \in RawEvents : e.link = "l2"
        e3 == CHOOSE e \in RawEvents : e.link = "l3"
    IN  {<<>>, <<e1, e2, e3>>, <<e3>>}

\* The upstream bodies res.json() can yield for a request of the given date:
\* {}, the month with no bucket for the day, the month with a bucket for it.
HistoryBodies(date) ==
    {EmptyMap}
    \cup {[mm \in {MonthField(date)} |-> EmptyMap]}
    \cup {[mm \in {MonthField(date)} |-> [f \in {TodayField(date)} |-> b]] :
            b \in SampleBuckets}

\* ModifiedTodayEvents, tabulated over the model's dates and bodies.
HistoryResults ==
    [date \in Dates |->
        [monthEvents \in HistoryBodies(date) |-> ModifiedTodayEvents(monthEvents, date)]]

\* ----------------------------------------------- ServiceDoubanWeekly: data

CATEGORY_CONFIG ==
    [ movie        |-> [collection |-> "movie_weekly_best", title |-> "movie", emoji |-> "clapper"],
      tv_chinese   |-> [collection |-> "tv_chinese_best_weekly", title |-> "tv_chinese", emoji |-> "tv"],
      tv_global    |-> [collection |-> "tv_global_best_weekly", title |-> "tv_global", emoji |-> "globe"],
      show_chinese |-> [collection |-> "show_chinese_best_weekly", title |-> "show_chinese", emoji |-> "mic"],
      show_global  |-> [collection |-> "show_global_best_weekly", title |-> "show_global", emoji |-> "globe"] ]

\* type DoubanCategory
DoubanCategory == DOMAIN CATEGORY_CONFIG

\* The categories the model's requests name (the routes exercised).
RequestedCategories == {"movie", "tv_chinese"}

CACHE_TTL == 3600000

\* "U+8593" is the upwards arrow, "U+8595" the downwards arrow.
TREND_SYMBOL == [up |-> "U+8593", down |-> "U+8595", equal |-> "-"]

\* An optional field of the upstream JSON: <<>> when absent (undefined or
\* null), <<v>> when present. Coalesce(o, d) is o ?? d.
Coalesce(o, d) == IF o = <<>> THEN d ELSE o[1]

\* raw.cover_url.replace(/https:\/\/img\w*\.doubanio\.com/, 'https://doubanio.viki.moe')
\* on a URL written as <<origin, path>>.
ImgOrigins == {"https://img.doubanio.com", "https://img3.doubanio.com"}

CoverProxy(url) ==
    IF url[1] \in ImgOrigins THEN <<"https://doubanio.viki.moe", url[2]>> ELSE url

\* Array.prototype.filter(Boolean) on texts: the empty text is falsy.
RECURSIVE FilterBoolean(_)
FilterBoolean(names) ==
    IF names = <<>> THEN <<>>
    ELSE IF Head(names) = "" THEN FilterBoolean(Tail(names))
    ELSE <<Head(names)>> \o FilterBoolean(Tail(names))

\* const trend = raw.trend_up ? 'up' : raw.trend_down ? 'down' : 'equal'
TrendDownFirst(raw) ==
    IF raw.trend_down THEN "down" ELSE IF raw.trend_up THEN "up" ELSE "equal"

Trend(raw) ==
    IF raw.trend_up THEN "up" ELSE IF raw.trend_down THEN "down" ELSE "equal"

transformItem(raw) ==
    LET tags == Coalesce(raw.tags, <<>>)
    IN  [ rank          |-> raw.rank,
          title         |-> raw.title,
          id            |-> raw.id,
          rating        |-> IF raw.rating = <<>> THEN 0 ELSE Coalesce(raw.rating[1].value, 0),
          rating_count  |-> IF raw.rating = <<>> THEN 0 ELSE Coalesce(raw.rating[1].count, 0),
          good_rate     |-> Coalesce(raw.good_rating_stats, 0),
          trend         |-> Trend(raw),
          rank_change   |-> Coalesce(raw.rank_value_changed, 0),
          card_subtitle |-> Coalesce(raw.card_subtitle, ""),
          description   |-> Coalesce(raw.description, ""),
          cover         |-> raw.cover_url,
          cover_proxy   |-> CoverProxy(raw.cover_url),
          url           |-> raw.url,
          tags          |-> FilterBoolean([i \in 1..Len(tags) |-> tags[i].name]) ]

\* The comparator of .sort((a, b) => a.rank - b.rank) reads each item's rank.
RankKey(e) == e.rank

\* (raw items).map(transformItem).sort((a, b) => a.rank - b.rank)
NormalizeItems(raws) ==
    LET mapped == [i \in 1..Len(raws) |-> transformItem(raws[i])]
    IN  ArraySort(mapped, [i \in 1..Len(mapped) |-> RankKey(mapped[i])])

\* json.subject_collection_items ?? []
CollectionItems(json) ==
    IF "subject_collection_items" \in DOMAIN json
    THEN json.subject_collection_items
    ELSE <<>>

\* The decimal digits of a natural number, as String(n) writes them.
RECURSIVE DigitsOf(_)
DigitsOf(n) ==
    IF n < 10 THEN <<DigitChars[n + 1]>>
    ELSE DigitsOf(n \div 10) \o <<DigitChars[(n % 10) + 1]>>

\* const trend = e.rank_change
\*   ? `${TREND_SYMBOL[e.trend]}${Math.abs(e.rank_change)}` : TREND_SYMBOL[e.trend]
TrendCellSigned(e) ==
    IF e.rank_change # 0
    THEN <<TREND_SYMBOL[e.trend]>>
            \o (IF e.rank_change < 0 THEN <<"-">> ELSE <<>>) \o DigitsOf(Abs(e.rank_change))
    ELSE <<TREND_SYMBOL[e.trend]>>

TrendCell(e) ==
    IF e.rank_change # 0
    THEN <<TREND_SYMBOL[e.trend]>> \o DigitsOf(Abs(e.rank_change))
    ELSE <<TREND_SYMBOL[e.trend]>>

\* A raw ranking record with the given rank, change, flags and title; the
\* other fields are fixed.
RawItem(rank, changed, up, down, title) ==
    [ rank               |-> rank,
      rank_value_changed |-> changed,
      trend_up           |-> up,
      trend_down         |-> down,
      title              |-> title,
      id                 |-> title,
      rating             |-> <<[value |-> <<8>>, count |-> <<100>>]>>,
      card_subtitle      |-> <<"sub">>,
      description        |-> <<>>,
      cover_url          |-> <<"https://img3.doubanio.com", "/view/x.jpg">>,
      url                |-> "u",
      good_rating_stats  |-> <<>>,
      tags               |-> <<<<[name |-> "t", type |-> "g"], [name |-> "", type |-> "g"]>>>> ]

\* Raw records of the model's upstream lists: ranks out of order and tied,
\* one record with both flags clear and a non-zero change.
RawItems ==
    { RawItem(2, <<1>>, TRUE, FALSE, "a"),
      RawItem(1, <<>>, FALSE, TRUE, "b"),
      RawItem(1, <<-2>>, FALSE, FALSE, "c") }

SampleLists ==
    LET a == CHOOSE x \in RawItems : x.title = "a"
        b == CHOOSE x \in RawItems : x.title = "b"
        c == CHOOSE x \in RawItems : x.title = "c"
    IN  {<<>>, <<a, b, c>>, <<c>>}

\* The upstream bodies res.json() can yield: {} or an object with a list of
\* raw records.
DoubanBodies ==
    {EmptyMap} \cup {[f \in {"subject_collection_items"} |-> l] : l \in SampleLists}

\* The list #fetch builds from a body, tabulated over the model's bodies.
DoubanResults == [json \in DoubanBodies |-> NormalizeItems(CollectionItems(json))]

\* ------------------------------------------------------------------- state

VARIABLES
    svc,      \* the service the behaviour's requests address: "calendar" or
              \* "ranking" (the two services share no state)
    hcache,   \* ServiceTodayInHistory.cache: "M-D" -> HistoryItem list
    dcache,   \* ServiceDoubanWeekly.cache: category -> [data, timestamp]
    now,      \* the value Date.now() returns
    pc,       \* per handler: "idle", "fetching" (awaiting fetch) or "parsing"
              \* (awaiting res.json())
    arg,      \* per handler in flight: its date (calendar) or category (ranking)
    calls,    \* per handler in flight: upstream fetch calls it has made
    hret,     \* per calendar key: the items returned by the request whose
              \* cache.set ran last
    dput,     \* per category: the list handed to the cache.set that ran last
    event,    \* the step just taken and, for a return or a throw, its outcome
    input,    \* SpecPure: the value handed to a pure function
    output    \* SpecPure: <<>>, then <<what the function made of the input>>

cacheVars == <<hcache, dcache, hret, dput>>
reqVars == <<pc, arg, calls>>
pureVars == <<input, output>>
vars == <<svc, hcache, dcache, hret, dput, now, pc, arg, calls, event, input, output>>

Handlers == 1..MaxInFlight

\* The readings of the clock: the start, the millisecond before an entry
\* stored at the start turns CACHE_TTL old, and each millisecond from there on.
Times == {0, CACHE_TTL - 1} \cup {CACHE_TTL + e : e \in 0..MaxLate}

\* The record of a step: its kind ("miss", "await", "throw", "return", "tick"),
\* its key, whether the lookup hit, the status of the response
\* ("none" before one arrived), the upstream calls and cache.set calls of the
\* request, whether a request that missed finds at its return that another has
\* stored under its key meanwhile (the key is present, the entry is young),
\* what #fetch returned, and, for a ranking request that returns from a miss,
\* whether its category had an entry just before the step (had) and whether
\* the step before was a tick of the clock (ticked), which then fell between
\* the request's validity test and its return.
Event(type, key, hit, status, ncalls, nstores, raced, data) ==
    [ type |-> type, key |-> key, hit |-> hit, status |-> status,
      calls |-> ncalls, stores |-> nstores, raced |-> raced, data |-> data,
      had |-> FALSE, ticked |-> FALSE ]

NoEvent(type) == Event(type, Nil, FALSE, "none", 0, 0, FALSE, <<>>)

\* A request is taken by the free handler of the lowest number.
Free(r) == pc[r] = "idle" /\ \A q \in Handlers : q < r => pc[q] # "idle"

InitState ==
    /\ hcache = EmptyMap
    /\ dcache = EmptyMap
    /\ hret = EmptyMap
    /\ dput = EmptyMap
    /\ now = 0
    /\ pc = [r \in Handlers |-> "idle"]
    /\ arg = [r \in Handlers |-> Nil]
    /\ calls = [r \in Handlers |-> 0]
    /\ event = NoEvent("init")
    /\ input = Nil
    /\ output = <<>>

Init == svc \in {"calendar", "ranking"} /\ InitState

\* The wall clock moves on.
Tick ==
    /\ \E t \in Times : t > now /\ now' = t
    /\ event' = NoEvent("tick")
    /\ UNCHANGED <<svc, cacheVars, reqVars, pureVars>>

\* The handler's request is over: it holds nothing any more.
Release(r) ==
    /\ pc' = [pc EXCEPT ![r] = "idle"]
    /\ arg' = [arg EXCEPT ![r] = Nil]
    /\ calls' = [calls EXCEPT ![r] = 0]

\* --------------------------------------- ServiceTodayInHistory.#fetch steps

\* this.cache.has(monthAndDay)
HistoryValid(key) == MapHas(hcache, key)

\* Lines 34-54: the key is in the cache; the stored list is mapped and returned.
HistoryHit(r, date) ==
    /\ svc = "calendar" /\ Free(r)
    /\ HistoryValid(MonthAndDay(date))
    /\ event' = Event("return", MonthAndDay(date), TRUE, "none", 0, 0, FALSE,
                      HistoryData(date, CachedItems(MapGet(hcache, MonthAndDay(date)))))
    /\ UNCHANGED <<svc, cacheVars, now, reqVars, pureVars>>

\* Lines 34-56: the key is not in the cache; fetch(getHistoryApi(month)) is
\* called and awaited.
HistoryMiss(r, date) ==
    /\ svc = "calendar" /\ Free(r)
    /\ ~HistoryValid(MonthAndDay(date))
    /\ pc' = [pc EXCEPT ![r] = "fetching"]
    /\ arg' = [arg EXCEPT ![r] = date]
    /\ calls' = [calls EXCEPT ![r] = @ + 1]
    /\ event' = Event("miss", MonthAndDay(date), FALSE, "none", calls'[r], 0, FALSE, <<>>)
    /\ UNCHANGED <<svc, cacheVars, now, pureVars>>

\* Line 56: fetch rejects (the transport failed); #fetch throws.
HistoryFetchRejectStoring(r) ==
    /\ svc = "calendar" /\ pc[r] = "fetching"
    /\ Release(r)
    /\ hcache' = MapSet(hcache, MonthAndDay(arg[r]), <<>>)
    /\ hret' = MapSet(hret, MonthAndDay(arg[r]), <<>>)
    /\ event' = Event("throw", MonthAndDay(arg[r]), FALSE, "none", calls[r], 0, FALSE, <<>>)
    /\ UNCHANGED <<svc, dcache, dput, now, pureVars>>

HistoryFetchReject(r) ==
    /\ svc = "calendar" /\ pc[r] = "fetching"
    /\ Release(r)
    /\ event' = Event("throw", MonthAndDay(arg[r]), FALSE, "none", calls[r], 0, FALSE, <<>>)
    /\ UNCHANGED <<svc, cacheVars, now, pureVars>>

\* Lines 56-57: fetch resolves with a response; res.json() is called and
\* awaited.
HistoryFetchResolveQueued(r) ==
    /\ svc = "calendar" /\ pc[r] = "fetching"
    /\ \A q \in Handlers : q < r => pc[q] = "idle"
    /\ pc' = [pc EXCEPT ![r] = "parsing"]
    /\ event' = NoEvent("await")
    /\ UNCHANGED <<svc, cacheVars, now, arg, calls, pureVars>>

HistoryFetchResolve(r) ==
    /\ svc = "calendar" /\ pc[r] = "fetching"
    /\ pc' = [pc EXCEPT ![r] = "parsing"]
    /\ event' = NoEvent("await")
    /\ UNCHANGED <<svc, cacheVars, now, arg, calls, pureVars>>

\* Line 57: the body is not JSON; res.json() rejects and #fetch throws. The
\* response had the given status, which the code does not read.
HistoryJsonReject(r, status) ==
    /\ svc = "calendar" /\ pc[r] = "parsing"
    /\ Release(r)
    /\ event' = Event("throw", MonthAndDay(arg[r]), FALSE, status, calls[r], 0, FALSE, <<>>)
    /\ UNCHANGED <<svc, cacheVars, now, pureVars>>

\* this.cache.set(monthAndDay, modifiedTodayEvents)
HistoryStoreMerging(key, events) ==
    MapSet(hcache, key, (IF MapHas(hcache, key) THEN hcache[key] ELSE <<>>) \o events)

HistoryStore(key, events) == MapSet(hcache, key, events)

\* Lines 57-92: res.json() resolves; the day's bucket is selected, sorted,
\* mapped, stored and returned. The response had the given status, which the
\* code does not read.
HistoryJsonResolve(r, status) ==
    /\ svc = "calendar" /\ pc[r] = "parsing"
    /\ \E monthEvents \in HistoryBodies(arg[r]) :
          LET events == HistoryResults[arg[r]][monthEvents]
              key == MonthAndDay(arg[r])
              data == HistoryData(arg[r], ReturnedItems(events))
          IN  /\ hcache' = HistoryStore(key, events)
              /\ hret' = MapSet(hret, key, data.items)
              /\ event' = Event("return", key, FALSE, status, calls[r], 1,
                                HistoryValid(key), data)
    /\ Release(r)
    /\ UNCHANGED <<svc, dcache, dput, now, pureVars>>

\* ----------------------------------------- ServiceDoubanWeekly.#fetch steps

\* cached && Date.now() - cached.timestamp < this.CACHE_TTL
DoubanValidInclusive(category) ==
    MapHas(dcache, category) /\ now - MapGet(dcache, category).timestamp <= CACHE_TTL

DoubanValid(category) ==
    MapHas(dcache, category) /\ now - MapGet(dcache, category).timestamp < CACHE_TTL

\* Lines 256-260: a young enough entry exists; its list is returned.
DoubanHitTouching(r, category) ==
    /\ svc = "ranking" /\ Free(r)
    /\ DoubanValid(category)
    /\ dcache' = MapSet(dcache, category,
                        [data |-> MapGet(dcache, category).data, timestamp |-> now])
    /\ event' = Event("return", category, TRUE, "none", 0, 0, FALSE,
                      MapGet(dcache, category).data)
    /\ UNCHANGED <<svc, hcache, hret, dput, now, reqVars, pureVars>>

DoubanHit(r, category) ==
    /\ svc = "ranking" /\ Free(r)
    /\ DoubanValid(category)
    /\ event' = Event("return", category, TRUE, "none", 0, 0, FALSE,
                      MapGet(dcache, category).data)
    /\ UNCHANGED <<svc, cacheVars, now, reqVars, pureVars>>

\* Lines 256-270: no entry, or one too old; fetch(url, headers) is called and
\* awaited.
DoubanMiss(r, category) ==
    /\ svc = "ranking" /\ Free(r)
    /\ ~DoubanValid(category)
    /\ pc' = [pc EXCEPT ![r] = "fetching"]
    /\ arg' = [arg EXCEPT ![r] = category]
    /\ calls' = [calls EXCEPT ![r] = @ + 1]
    /\ event' = Event("miss", category, FALSE, "none", calls'[r], 0, FALSE, <<>>)
    /\ UNCHANGED <<svc, cacheVars, now, pureVars>>

\* Line 265: fetch rejects (the transport failed); #fetch throws.
DoubanFetchReject(r) ==
    /\ svc = "ranking" /\ pc[r] = "fetching"
    /\ Release(r)
    /\ event' = Event("throw", arg[r], FALSE, "none", calls[r], 0, FALSE, <<>>)
    /\ UNCHANGED <<svc, cacheVars, now, pureVars>>

\* Lines 265-272: fetch resolves with a response; res.json() is called and
\* awaited.
DoubanFetchResolve(r) ==
    /\ svc = "ranking" /\ pc[r] = "fetching"
    /\ pc' = [pc EXCEPT ![r] = "parsing"]
    /\ event' = NoEvent("await")
    /\ UNCHANGED <<svc, cacheVars, now, arg, calls, pureVars>>

\* Line 272: the body is not JSON; res.json() rejects and #fetch throws. The
\* response had the given status, which the code does not read.
DoubanJsonReject(r, status) ==
    /\ svc = "ranking" /\ pc[r] = "parsing"
    /\ Release(r)
    /\ event' = Event("throw", arg[r], FALSE, status, calls[r], 0, FALSE, <<>>)
    /\ UNCHANGED <<svc, cacheVars, now, pureVars>>

\* if (items.length > 0)
DoubanStoresAlways(items) == TRUE

DoubanStores(items) == Len(items) > 0

\* this.cache.set(category, { data: items, timestamp: Date.now() })
DoubanStoreStale(category, items) ==
    MapSet(dcache, category,
           [data |-> items,
            timestamp |-> IF MapHas(dcache, category)
                          THEN MapGet(dcache, category).timestamp ELSE now])

DoubanStore(category, items) ==
    MapSet(dcache, category, [data |-> items, timestamp |-> now])

\* Lines 272-281: res.json() resolves; the records are mapped and sorted,
\* stored when there are any, and returned. The response had the given status,
\* which the code does not read.
DoubanJsonResolve(r, status, json) ==
    /\ svc = "ranking" /\ pc[r] = "parsing"
    /\ LET items == DoubanResults[json]
       IN  IF DoubanStores(items)
           THEN /\ dcache' = DoubanStore(arg[r], items)
                /\ dput' = MapSet(dput, arg[r], items)
                /\ event' = [Event("return", arg[r], FALSE, status, calls[r], 1,
                                   DoubanValid(arg[r]), items)
                              EXCEPT !.had = MapHas(dcache, arg[r]),
                                     !.ticked = (event.type = "tick")]
           ELSE /\ UNCHANGED <<dcache, dput>>
                /\ event' = [Event("return", arg[r], FALSE, status, calls[r], 0,
                                   DoubanValid(arg[r]), items)
                              EXCEPT !.had = MapHas(dcache, arg[r]),
                                     !.ticked = (event.type = "tick")]
    /\ Release(r)
    /\ UNCHANGED <<svc, hcache, hret, now, pureVars>>

\* ----------------------------------------------------------- specification

\* The status of a response that arrived: success or not.
Statuses == {"2xx", "non-2xx"}

Next ==
    \/ Tick
    \/ \E r \in Handlers, date \in Dates : HistoryHit(r, date)
    \/ \E r \in Handlers, date \in Dates : HistoryMiss(r, date)
    \/ \E r \in Handlers : HistoryFetchReject(r)
    \/ \E r \in Handlers : HistoryFetchResolve(r)
    \/ \E r \in Handlers, status \in Statuses : HistoryJsonReject(r, status)
    \/ \E r \in Handlers, status \in Statuses : HistoryJsonResolve(r, status)
    \/ \E r \in Handlers, category \in RequestedCategories : DoubanHit(r, category)
    \/ \E r \in Handlers, category \in RequestedCategories : DoubanMiss(r, category)
    \/ \E r \in Handlers : DoubanFetchReject(r)
    \/ \E r \in Handlers : DoubanFetchResolve(r)
    \/ \E r \in Handlers, status \in Statuses : DoubanJsonReject(r, status)
    \/ \E r \in Handlers, status \in Statuses, json \in DoubanBodies :
          DoubanJsonResolve(r, status, json)

Spec == Init /\ [][Next]_vars

\* The promise of the handler's fetch call settles: it rejects or resolves.
TransportSettles(r) ==
    \/ HistoryFetchReject(r)
    \/ HistoryFetchResolve(r)
    \/ DoubanFetchReject(r)
    \/ DoubanFetchResolve(r)

\* The promise of the handler's res.json() call settles, and the handler runs
\* on to its return or its throw.
BodySettles(r) ==
    \E status \in Statuses :
        \/ HistoryJsonReject(r, status)
        \/ HistoryJsonResolve(r, status)
        \/ DoubanJsonReject(r, status)
        \/ \E json \in DoubanBodies : DoubanJsonResolve(r, status, json)

\* Every transport call completes or fails in the end, and the event loop then
\* resumes the handler that awaits it.
Fairness ==
    \A r \in Handlers : WF_vars(TransportSettles(r)) /\ WF_vars(BodySettles(r))

SpecLive == Init /\ [][Next]_vars /\ Fairness

\* ------------------------------------------------ ServiceDoubanWeekly.handle

\* const rating = e.rating ? <star>${e.rating} : <no rating>
RatingCell(e, none) == IF e.rating # 0 THEN <<"star", e.rating>> ELSE <<none>>

\* Lines 230-234: the line of the text rendering for one item, as the pieces
\* of its template literal.
DoubanTextLine(e) ==
    [ rank |-> e.rank, title |-> e.title, rating |-> RatingCell(e, "no rating yet"),
      trend |-> TrendCell(e), card_subtitle |-> e.card_subtitle ]

\* Lines 240-244: the table row of the markdown rendering for one item, as its
\* cells in column order.
DoubanMarkdownRow(e) ==
    << e.rank, <<e.title, e.url>>, <<RatingCell(e, "none"), e.rating_count>>,
       e.good_rate, e.card_subtitle, TrendCell(e) >>

\* Common.buildJson(data): the structured response around the data as it is.
BuildJson(data) == [format |-> "json", data |-> data]

\* Lines 229-235: the text body, as its title and its lines.
DoubanTextBody(config, data) ==
    [ format |-> "text", title |-> config.title,
      lines |-> [i \in 1..Len(data) |-> DoubanTextLine(data[i])] ]

\* Lines 239-245: the markdown body, as its heading and the rows of its table.
DoubanMarkdownBody(config, data) ==
    [ format |-> "markdown", title |-> <<config.emoji, config.title>>,
      lines |-> [i \in 1..Len(data) |-> DoubanMarkdownRow(data[i])] ]

\* Lines 224-252: switch (ctx.state.encoding) on the list #fetch returned. The
\* encoding is <<>> when the context carries none.
DoubanBody(encoding, category, data) ==
    CASE encoding = <<"text">> -> DoubanTextBody(CATEGORY_CONFIG[category], data)
      [] encoding = <<"markdown">> -> DoubanMarkdownBody(CATEGORY_CONFIG[category], data)
      [] OTHER -> BuildJson(data)

\* ---------------------------------------------- ServiceTodayInHistory.handle

\* Lines 15-17: the text body, as its title and its numbered lines.
HistoryTextBody(data) ==
    [ format |-> "text", title |-> data.date,
      lines |-> [i \in 1..Len(data.items) |->
                    <<i, data.items[i].title, data.items[i].year>>] ]

\* Lines 21-23: the markdown body, as its heading and its numbered sections.
HistoryMarkdownBody(data) ==
    [ format |-> "markdown", title |-> data.date,
      lines |-> [i \in 1..Len(data.items) |->
                    << i, data.items[i].title, data.items[i].link,
                       data.items[i].year, data.items[i].description >>] ]

\* Lines 13-30: switch (ctx.state.encoding) on the object #fetch returned.
HistoryBodyStrict(encoding, data) ==
    CASE encoding = <<"text">> -> HistoryTextBody(data)
      [] encoding = <<"markdown">> -> HistoryMarkdownBody(data)
      [] encoding = <<"json">> -> BuildJson(data)
      [] OTHER -> [format |-> "error"]

HistoryBody(encoding, data) ==
    CASE encoding = <<"text">> -> HistoryTextBody(data)
      [] encoding = <<"markdown">> -> HistoryMarkdownBody(data)
      [] OTHER -> BuildJson(data)

\* Values of ctx.state.encoding: the three named ones, two others, and none.
Encodings == {<<"text">>, <<"markdown">>, <<"json">>, <<"xml">>, <<"TEXT">>, <<>>}

\* The trend cell of a rendered line or row.
TrendOf(encoding, rendered) == IF encoding = "text" THEN rendered.trend ELSE rendered[6]

\* ----------------------------------------------------- the pure functions

\* Raw events for the normalizer alone: years of different lengths, a negative
\* one, and two events of one year.
PureEvents ==
    { [ title |-> <<"A">>, year |-> <<"1", "9", "9", "0">>,
        desc |-> <<"a", ".">>, type |-> "event", link |-> "l1" ],
      [ title |-> <<"B">>, year |-> <<"2", "0", "0">>,
        desc |-> <<"b">>, type |-> "birth", link |-> "l2" ],
      [ title |-> <<"C">>, year |-> <<"1", "9", "9", "0">>,
        desc |-> <<"c">>, type |-> "death", link |-> "l3" ],
      [ title |-> <<"D">>, year |-> <<"-", "5", "0">>,
        desc |-> <<"d">>, type |-> "event", link |-> "l4" ] }

\* Raw ranking records for the sort alone: ranks out of order, two of one rank.
PureRanked ==
    { RawItem(3, <<>>, FALSE, FALSE, "a"),
      RawItem(1, <<>>, FALSE, FALSE, "b"),
      RawItem(2, <<>>, FALSE, FALSE, "c"),
      RawItem(1, <<>>, FALSE, FALSE, "d") }

\* Raw ranking records for transformItem and the renderer: every combination
\* of the two flags with an absent, a zero, a positive and a negative change.
PureRaw ==
    { RawItem(1, ch, up, down, "a") :
        ch \in {<<>>, <<0>>, <<3>>, <<-12>>}, up \in BOOLEAN, down \in BOOLEAN }

PureDate == CHOOSE d \in Dates : d.y = 2024 /\ d.m = 3

\* Raw title and description texts for the sanitizer and the terminator rule:
\* with and without a final '.' or ideographic full stop, empty, with tags
\* around the text, and with decimal entities of code 46 ('.'), 65 ('A'),
\* 12290, 20013, 65582 (65536 + 46) and 128512 (above 65535).
PureTexts ==
    { <<>>,
      <<"a">>,
      <<"a", ".">>,
      <<"a", "U+12290">>,
      <<"a", ".", " ">>,
      <<"<", "b", ">", "a", ".", "<", "/", "b", ">">>,
      <<"&", "#", "4", "6", ";">>,
      <<"&", "#", "6", "5", ";">>,
      <<"&", "#", "1", "2", "2", "9", "0", ";">>,
      <<"a", "&", "#", "2", "0", "0", "1", "3", ";">>,
      <<"&", "#", "6", "5", "5", "8", "2", ";">>,
      <<"&", "#", "1", "2", "8", "5", "1", "2", ";">> }

\* Raw tag lists for transformItem: every list of up to MaxPure tags named
\* "x", "y" or "" (so names repeat and empty names occur), and no list at all.
PureTags ==
    {<<>>} \cup
    { <<[i \in 1..Len(names) |-> [name |-> names[i], type |-> "g"]]>> :
        names \in SeqsUpTo({"x", "y", ""}, MaxPure) }

\* The input is a function's name and its argument.
PureInput ==
    \/ \E l \in SeqsUpTo(PureEvents, MaxPure) : input = [fn |-> "history", arg |-> l]
    \/ \E l \in SeqsUpTo(PureRanked, MaxPure) : input = [fn |-> "douban", arg |-> l]
    \/ \E raw \in PureRaw, fn \in {"transformItem", "text", "markdown"} :
          input = [fn |-> fn, arg |-> raw]
    \/ \E encoding \in Encodings, body \in HistoryBodies(PureDate) :
          input = [fn |-> "historyHandle",
                   arg |-> [ encoding |-> encoding,
                             data |-> HistoryData(PureDate,
                                         ReturnedItems(HistoryResults[PureDate][body])) ]]
    \/ \E encoding \in Encodings, category \in RequestedCategories, json \in DoubanBodies :
          input = [fn |-> "doubanHandle",
                   arg |-> [ encoding |-> encoding, category |-> category,
                             data |-> DoubanResults[json] ]]
    \/ \E tags \in PureTags :
          input = [fn |-> "transformItem",
                   arg |-> [RawItem(1, <<>>, FALSE, FALSE, "a") EXCEPT !.tags = tags]]
    \/ \E title \in PureTexts, desc \in PureTexts :
          input = [fn |-> "event",
                   arg |-> [ title |-> title, year |-> <<"1", "9", "9", "0">>,
                             desc |-> desc, type |-> "event", link |-> "l1" ]]

InitPure ==
    /\ svc = "none"
    /\ hcache = EmptyMap
    /\ dcache = EmptyMap
    /\ hret = EmptyMap
    /\ dput = EmptyMap
    /\ now = 0
    /\ pc = [r \in Handlers |-> "idle"]
    /\ arg = [r \in Handlers |-> Nil]
    /\ calls = [r \in Handlers |-> 0]
    /\ event = NoEvent("init")
    /\ PureInput
    /\ output = <<>>

Applies(fn) == input.fn = fn /\ output = <<>>

Frame == UNCHANGED <<svc, cacheVars, now, reqVars, event, input>>

\* Lines 57-91 on a body whose bucket for the day is the input: the items
\* #fetch returns.
ApplyHistory ==
    /\ Applies("history")
    /\ output' = <<ReturnedItems(ModifiedTodayEvents(
                     [mm \in {MonthField(PureDate)} |->
                         [f \in {TodayField(PureDate)} |-> input.arg]], PureDate))>>
    /\ Frame

\* Lines 57-91 on a body whose bucket for the day holds the one input event:
\* the list #fetch stores and the items it returns.
ApplyEvent ==
    /\ Applies("event")
    /\ LET modifiedTodayEvents ==
               ModifiedTodayEvents(
                   [mm \in {MonthField(PureDate)} |->
                       [f \in {TodayField(PureDate)} |-> <<input.arg>>]], PureDate)
       IN  output' = <<[ cached   |-> modifiedTodayEvents,
                         returned |-> ReturnedItems(modifiedTodayEvents) ]>>
    /\ Frame

\* Lines 273-275 on the input list.
ApplyDouban ==
    /\ Applies("douban")
    /\ output' = <<NormalizeItems(input.arg)>>
    /\ Frame

\* Lines 197-216.
ApplyTransformItem ==
    /\ Applies("transformItem")
    /\ output' = <<transformItem(input.arg)>>
    /\ Frame

\* Lines 229-234 for one item.
ApplyText ==
    /\ Applies("text")
    /\ output' = <<DoubanTextLine(transformItem(input.arg))>>
    /\ Frame

\* Lines 239-244 for one item.
ApplyMarkdown ==
    /\ Applies("markdown")
    /\ output' = <<DoubanMarkdownRow(transformItem(input.arg))>>
    /\ Frame

\* Lines 13-30 on an object #fetch returned.
ApplyHistoryHandle ==
    /\ Applies("historyHandle")
    /\ output' = <<HistoryBody(input.arg.encoding, input.arg.data)>>
    /\ Frame

\* Lines 224-252 on a list #fetch returned.
ApplyDoubanHandle ==
    /\ Applies("doubanHandle")
    /\ output' = <<DoubanBody(input.arg.encoding, input.arg.category, input.arg.data)>>
    /\ Frame

NextPure ==
    \/ ApplyHistory
    \/ ApplyHistoryHandle
    \/ ApplyDoubanHandle
    \/ ApplyEvent
    \/ ApplyDouban
    \/ ApplyTransformItem
    \/ ApplyText
    \/ ApplyMarkdown

SpecPure == InitPure /\ [][NextPure]_vars

\* -------------------------------------------------------------- properties

CalendarReturn == svc = "calendar" /\ event.type = "return"

RankingReturn == svc = "ranking" /\ event.type = "return"

\* C1. Calendar: once a request has stored under a key the key stays in the
\* cache (the keys present are exactly the keys ever stored under); a request
\* misses only when its key is absent, so every later request for the key is a
\* hit; a hit makes no upstream call and returns, field by field and in order,
\* the items the request whose store made the entry returned.
C1_LaterRequestsHit ==
    /\ DOMAIN hcache = DOMAIN hret
    /\ (svc = "calendar" /\ event.type = "miss") => ~MapHas(hcache, event.key)
    /\ (CalendarReturn /\ event.hit) =>
          /\ event.calls = 0
          /\ MapHas(hret, event.key)
          /\ event.data.items = hret[event.key]

\* A hit on a stored list of three events, after the clock has passed the TTL.
C1_Witness ==
    /\ CalendarReturn /\ event.hit
    /\ Len(event.data.items) = 3
    /\ now > CACHE_TTL

\* C2. Ranking: a request that finds an entry with now - timestamp < 3 600 000
\* makes no upstream call and returns the cached list; one that finds no entry,
\* or one with now - timestamp >= 3 600 000, makes exactly one upstream call.
C2_TtlBoundary ==
    /\ (RankingReturn /\ event.hit) =>
          /\ MapHas(dcache, event.key)
          /\ now - dcache[event.key].timestamp < 3600000
          /\ event.calls = 0
          /\ event.data = dcache[event.key].data
    /\ (svc = "ranking" /\ event.type = "miss") =>
          /\ (MapHas(dcache, event.key) => now - dcache[event.key].timestamp >= 3600000)
          /\ event.calls = 1
    /\ (svc = "ranking" /\ event.type \in {"return", "throw"} /\ ~event.hit) =>
          event.calls = 1
    /\ \A r \in Handlers : calls[r] = (IF pc[r] = "idle" THEN 0 ELSE 1)

\* A request misses on an entry that is exactly 3 600 000 ms old.
C2_Witness ==
    /\ svc = "ranking" /\ event.type = "miss"
    /\ MapHas(dcache, event.key)
    /\ now - dcache[event.key].timestamp = 3600000

\* C3. Calendar: a request whose day has no bucket, or an empty one, returns an
\* empty list and leaves no entry under its key (so the next request fetches
\* again).
C3_EmptyNotRetained ==
    (CalendarReturn /\ ~event.hit /\ Len(event.data.items) = 0) =>
        ~MapHas(hcache, event.key)

\* C4. Ranking: every entry of the cache holds a non-empty list.
C4_EntriesNonEmpty ==
    \A c \in DOMAIN dcache : Len(dcache[c].data) > 0

\* A request has just returned an empty list, stored nothing, and the (old)
\* entry of its category is still there.
C4_Witness ==
    /\ RankingReturn /\ ~event.hit
    /\ Len(event.data) = 0 /\ event.stores = 0
    /\ MapHas(dcache, event.key)

\* C5. Both pipelines: a request whose upstream call fails at the transport
\* ends in an error, after exactly one upstream call, and neither its start
\* nor its failure changes the cache.
C5_TransportFailure ==
    [][\A r \in Handlers :
          /\ (pc[r] = "idle" /\ pc'[r] = "fetching") =>
                /\ hcache' = hcache /\ dcache' = dcache
                /\ calls'[r] = 1
          /\ (pc[r] = "fetching" /\ pc'[r] = "idle") =>
                /\ event'.type = "throw"
                /\ event'.calls = 1 /\ event'.stores = 0
                /\ calls[r] = 1
                /\ hcache' = hcache /\ dcache' = dcache]_vars

\* A ranking request has just failed at the transport while its category
\* still has its (expired) entry.
C5_Witness ==
    /\ svc = "ranking" /\ event.type = "throw" /\ event.status = "none"
    /\ MapHas(dcache, event.key)

\* C6. Both pipelines: a request whose upstream response has a non-success
\* status ends in an error and stores nothing.
C6_NonSuccessFails ==
    event.status = "non-2xx" => (event.type = "throw" /\ event.stores = 0)

\* C7, as stated. Every request that misses calls upstream, every one that
\* returns from a miss writes the cache, and the entry is the list of the last
\* store.
C7_EveryMissWrites ==
    /\ event.type = "miss" => event.calls = 1
    /\ (event.type = "return" /\ ~event.hit) => event.stores = 1
    /\ \A k \in DOMAIN hcache : CachedItems(hcache[k]) = hret[k]
    /\ \A c \in DOMAIN dcache : dcache[c].data = dput[c]

\* C7, amended. Every request that misses calls upstream, whether or not
\* another request for the key is in flight; every calendar request that
\* returns from a miss writes the cache, and a ranking request that returns
\* from a miss writes it exactly when its list is non-empty; the entry of a key
\* is always the list of the last store under it, never a merge.
C7_LastStoreWins ==
    /\ event.type = "miss" => event.calls = 1
    /\ (CalendarReturn /\ ~event.hit) =>
          /\ event.stores = 1
          /\ CachedItems(hcache[event.key]) = event.data.items
    /\ (RankingReturn /\ ~event.hit) =>
          /\ event.stores = (IF Len(event.data) > 0 THEN 1 ELSE 0)
          /\ event.stores = 1 => dcache[event.key].data = event.data
    /\ \A k \in DOMAIN hcache : CachedItems(hcache[k]) = hret[k]
    /\ \A c \in DOMAIN dcache : dcache[c].data = dput[c]

\* The last of several requests that missed on one key has just stored over
\* the entry another of them wrote while it was in flight.
C7_Witness ==
    /\ event.type = "return" /\ ~event.hit
    /\ event.raced /\ event.stores = 1
    /\ \A r \in Handlers : pc[r] = "idle"

\* C8. Both normalizers return a permutation of their input in ascending
\* numeric order of the sort key (the number the year text denotes; the rank),
\* with records of equal key in their input order.
C8_StableNumericSort ==
    (output # <<>> /\ input.fn \in {"history", "douban"}) =>
        LET in == input.arg
            out == output[1]
            n == Len(in)
            YearValue(y) == CASE y = <<"1", "9", "9", "0">> -> 1990
                              [] y = <<"2", "0", "0">> -> 200
                              [] y = <<"-", "5", "0">> -> 0 - 50
            Key(x) == IF input.fn = "history" THEN YearValue(x.year) ELSE x.rank
            Same(o, i) == IF input.fn = "history"
                          THEN o.link = i.link /\ o.year = i.year /\ o.event_type = i.type
                          ELSE o.title = i.title /\ o.rank = i.rank
        IN  /\ Len(out) = n
            /\ \E p \in [1..n -> 1..n] :
                  /\ \A i, j \in 1..n : i # j => p[i] # p[j]
                  /\ \A i \in 1..n : Same(out[i], in[p[i]])
                  /\ \A i \in 1..(n - 1) :
                        \/ Key(out[i]) < Key(out[i + 1])
                        \/ Key(out[i]) = Key(out[i + 1]) /\ p[i] < p[i + 1]

\* Events of years 1990, 200, 1990 come out as 200, then the two of 1990 in
\* their input order.
C8_Witness ==
    /\ input.fn = "history" /\ output # <<>>
    /\ Len(input.arg) = 3
    /\ [i \in 1..3 |-> input.arg[i].link] = <<"l3", "l2", "l1">>
    /\ [i \in 1..3 |-> output[1][i].link] = <<"l2", "l3", "l1">>

\* C9, as stated. trend is 'up' exactly when trend_up is set, 'down' exactly
\* when trend_down is set, and 'equal' when neither is.
C9_TrendFollowsEachFlag ==
    (input.fn = "transformItem" /\ output # <<>>) =>
        LET t == output[1].trend
            raw == input.arg
        IN  /\ t = "up" <=> raw.trend_up
            /\ t = "down" <=> raw.trend_down
            /\ t = "equal" <=> (~raw.trend_up /\ ~raw.trend_down)

\* C9, amended. trend is 'up' exactly when trend_up is set, 'down' exactly
\* when trend_down is set and trend_up is not, and 'equal' when neither is.
C9_TrendUpFirst ==
    (input.fn = "transformItem" /\ output # <<>>) =>
        LET t == output[1].trend
            raw == input.arg
        IN  /\ t \in {"up", "down", "equal"}
            /\ t = "up" <=> raw.trend_up
            /\ t = "down" <=> (raw.trend_down /\ ~raw.trend_up)
            /\ t = "equal" <=> (~raw.trend_up /\ ~raw.trend_down)

\* A record with both flags set has been transformed.
C9_Witness ==
    /\ input.fn = "transformItem" /\ output # <<>>
    /\ input.arg.trend_up /\ input.arg.trend_down

\* C10. In both renderings the trend cell of an item starts with the glyph of
\* its trend; when rank_change is non-zero the glyph is followed by the decimal
\* digits of its absolute value and nothing else, and when it is zero the cell
\* is the glyph alone.
C10_TrendCellFormat ==
    (input.fn \in {"text", "markdown"} /\ output # <<>>) =>
        LET item == transformItem(input.arg)
            cell == IF input.fn = "text" THEN output[1].trend ELSE output[1][6]
            glyph == CASE item.trend = "up" -> "U+8593"
                       [] item.trend = "down" -> "U+8595"
                       [] item.trend = "equal" -> "-"
            magnitude == IF item.rank_change < 0 THEN 0 - item.rank_change ELSE item.rank_change
        IN  /\ Len(cell) >= 1 /\ cell[1] = glyph
            /\ IF item.rank_change # 0
               THEN /\ Len(cell) > 1
                    /\ \A i \in 2..Len(cell) : cell[i] \in {"0", "1", "2", "3", "4", "5", "6", "7", "8", "9"}
                    /\ cell[2] # "0"
                    /\ DigitsValue(Tail(cell)) = magnitude
               ELSE Len(cell) = 1

\* The markdown row of an item that fell twelve places.
C10_Witness ==
    /\ input.fn = "markdown" /\ output # <<>>
    /\ input.arg.rank_value_changed = <<0 - 12>>
    /\ input.arg.trend_down /\ ~input.arg.trend_up
    /\ output[1][6] = <<"U+8595", "1", "2">>

\* C11. Calendar normalization: the description of an item is the sanitized
\* text of the raw description when that ends with '.' or with the ideographic
\* full stop, and that text followed by '...' otherwise; the stored and the
\* returned description are the same text, and it ends with '.' or with the
\* ideographic full stop.
C11_TerminatorRule ==
    (input.fn = "event" /\ output # <<>>) =>
        LET sanitized == transformChars(input.arg.desc)
            desc == output[1].cached[1].desc
            EndsSentence(t) == Len(t) > 0 /\ t[Len(t)] \in {".", "U+12290"}
        IN  /\ Len(output[1].cached) = 1 /\ Len(output[1].returned) = 1
            /\ desc = (IF EndsSentence(sanitized)
                       THEN sanitized
                       ELSE sanitized \o <<".", ".", ".">>)
            /\ output[1].returned[1].description = desc
            /\ EndsSentence(desc)

\* A description that ends with the ideographic full stop has been normalized.
C11_Witness ==
    /\ input.fn = "event" /\ output # <<>>
    /\ input.arg.desc = <<"a", "U+12290">>
    /\ output[1].cached[1].desc = <<"a", "U+12290">>

\* C12. Sanitizer: a title that is one decimal entity &#N; becomes the
\* character of code point N: one UTF-16 code unit for N up to 65535, the
\* surrogate pair of N above that (never the code unit N modulo 2^16).
C12_EntityIsCodePoint ==
    (input.fn = "event" /\ output # <<>>) =>
        LET t == input.arg.title
            IsEntity == /\ Len(t) >= 4 /\ t[1] = "&" /\ t[2] = "#" /\ t[Len(t)] = ";"
                        /\ \A i \in 3..(Len(t) - 1) : IsDigit(t[i])
            N == DigitsValue(SubSeq(t, 3, Len(t) - 1))
            Unit(u) == CASE u = 46 -> "."
                         [] u = 60 -> "<"
                         [] u = 65 -> "A"
                         [] OTHER -> "U+" \o ToString(u)
            Character == IF N < 65536
                         THEN <<Unit(N)>>
                         ELSE << Unit(55296 + ((N - 65536) \div 1024)),
                                 Unit(56320 + ((N - 65536) % 1024)) >>
        IN  IsEntity => output[1].returned[1].title = Character

\* C13. Ranking normalization: the tags of an item are the non-empty names of
\* the raw tags in upstream order, each name once (at its first occurrence).
C13_TagsWithoutDuplicates ==
    (input.fn = "transformItem" /\ output # <<>>) =>
        LET raw == IF input.arg.tags = <<>> THEN <<>> ELSE input.arg.tags[1]
            tags == output[1].tags
            Kept == { i \in 1..Len(raw) :
                        /\ raw[i].name # ""
                        /\ \A j \in 1..(i - 1) : raw[j].name # raw[i].name }
        IN  /\ Len(tags) = Cardinality(Kept)
            /\ \A i \in Kept :
                  tags[Cardinality({j \in Kept : j <= i})] = raw[i].name

\* C14. Both handlers: the body is the text rendering exactly when the
\* encoding is 'text', the markdown rendering exactly when it is 'markdown',
\* and for every other encoding, or none, the structured rendering, which
\* carries what #fetch returned as it is; the text and markdown renderings have
\* one line per item; no encoding gives anything but one of the three.
C14_EncodingSelection ==
    (input.fn \in {"historyHandle", "doubanHandle"} /\ output # <<>>) =>
        LET encoding == input.arg.encoding
            body == output[1]
            items == IF input.fn = "historyHandle" THEN input.arg.data.items
                     ELSE input.arg.data
        IN  /\ body.format \in {"text", "markdown", "json"}
            /\ body.format = "text" <=> encoding = <<"text">>
            /\ body.format = "markdown" <=> encoding = <<"markdown">>
            /\ body.format = "json" => body.data = input.arg.data
            /\ body.format # "json" => Len(body.lines) = Len(items)

\* A request with an encoding that is none of the three names has been
\* rendered, for a list of three items.
C14_Witness ==
    /\ input.fn = "historyHandle" /\ output # <<>>
    /\ input.arg.encoding = <<"xml">>
    /\ Len(input.arg.data.items) = 3
    /\ output[1].format = "json"

\* C15. Both pipelines: a step that serves a hit changes neither cache; an
\* entry of the ranking cache changes only in the step of a request that
\* stores under its category, which stamps it with the clock of that step; so
\* every hit is served less than 3 600 000 ms after the store that made the
\* entry, however many hits came before.
C15_HitLeavesCache ==
    /\ [](RankingReturn /\ event.hit =>
             /\ dcache[event.key].data = dput[event.key]
             /\ now - dcache[event.key].timestamp < 3600000)
    /\ [][/\ (event'.type = "return" /\ event'.hit) =>
                (hcache' = hcache /\ dcache' = dcache)
          /\ \A c \in DOMAIN dcache :
                /\ c \in DOMAIN dcache'
                /\ dcache'[c] # dcache[c] =>
                      /\ event'.type = "return" /\ event'.stores = 1 /\ event'.key = c
                      /\ dcache'[c].timestamp = now']_vars

\* A ranking hit on an entry made 3 599 999 ms earlier.
C15_Witness ==
    /\ RankingReturn /\ event.hit
    /\ now - dcache[event.key].timestamp = 3600000 - 1

\* C16. Ranking: when a request that missed returns a non-empty list for a
\* category that has an entry, the entry afterwards is that list and nothing
\* else, stamped with the clock of the storing step (which is later than the
\* clock the request started under when the clock moved meanwhile).
C16_RefreshOverwrites ==
    [][(/\ svc = "ranking"
        /\ event'.type = "return" /\ ~event'.hit
        /\ Len(event'.data) > 0
        /\ MapHas(dcache, event'.key)) =>
            /\ event'.had /\ event'.stores = 1
            /\ dcache'[event'.key] = [data |-> event'.data, timestamp |-> now']
            /\ (event.type = "tick" =>
                  event'.ticked /\ dcache[event'.key].timestamp < now')]_vars

\* A request has stored over an expired entry in the step after a tick of the
\* clock: the entry is stamped with the clock after the tick.
C16_Witness ==
    /\ RankingReturn /\ ~event.hit
    /\ event.had /\ ~event.raced /\ event.ticked
    /\ event.stores = 1
    /\ dcache[event.key] = [data |-> event.data, timestamp |-> now]
    /\ now > 3600000

\* C17. Ranking renderer: the trend cell of an item whose trend is 'equal' is
\* the '-' glyph alone, whatever its rank_change.
C17_EqualTrendIsBare ==
    (input.fn \in {"text", "markdown"} /\ output # <<>>) =>
        LET cell == IF input.fn = "text" THEN output[1].trend ELSE output[1][6]
        IN  (~input.arg.trend_up /\ ~input.arg.trend_down) => cell = <<"-">>

\* C19. Ranking: a request that missed and got an empty list returns it and
\* leaves the cache as it was; when the entry of its category was expired at
\* that step it is still there and still expired afterwards, and a hit is only
\* ever served from an entry younger than 3 600 000 ms, so the next request for
\* the category misses.
C19_EmptyRefetchKeepsEntry ==
    /\ [][(/\ svc = "ranking"
           /\ event'.type = "return" /\ ~event'.hit
           /\ Len(event'.data) = 0) =>
               /\ event'.stores = 0
               /\ dcache' = dcache /\ now' = now
               /\ event'.had = MapHas(dcache, event'.key)]_vars
    /\ [](/\ (RankingReturn /\ ~event.hit /\ Len(event.data) = 0
                  /\ event.had /\ ~event.raced) =>
                /\ MapHas(dcache, event.key)
                /\ now - dcache[event.key].timestamp >= 3600000
          /\ (RankingReturn /\ event.hit) =>
                now - dcache[event.key].timestamp < 3600000)

\* A request has returned an empty list for a category whose entry is expired.
C19_Witness ==
    /\ RankingReturn /\ ~event.hit /\ Len(event.data) = 0
    /\ event.had /\ ~event.raced
    /\ now - dcache[event.key].timestamp >= 3600000
    /\ Len(dcache[event.key].data) = 3

\* C20. Both pipelines: a step changes the entry of a key, or makes one, only
\* when it is the storing step of a request for that key; every other key keeps
\* its entry or stays absent; and the keys of the ranking cache are among the
\* five categories.
C20_KeyIsolation ==
    /\ [](DOMAIN dcache \subseteq
             {"movie", "tv_chinese", "tv_global", "show_chinese", "show_global"})
    /\ [][/\ \A k \in DOMAIN hcache \cup DOMAIN hcache' :
                \/ k \in DOMAIN hcache /\ k \in DOMAIN hcache' /\ hcache'[k] = hcache[k]
                \/ event'.type = "return" /\ event'.stores = 1 /\ event'.key = k
          /\ \A k \in DOMAIN dcache \cup DOMAIN dcache' :
                \/ k \in DOMAIN dcache /\ k \in DOMAIN dcache' /\ dcache'[k] = dcache[k]
                \/ event'.type = "return" /\ event'.stores = 1 /\ event'.key = k]_vars

\* A request has stored under its key while another key has an entry and
\* another request is in flight.
C20_Witness ==
    /\ event.type = "return" /\ event.stores = 1
    /\ \E k \in DOMAIN hcache \cup DOMAIN dcache : k # event.key
    /\ \E r \in Handlers : pc[r] # "idle"

\* C18. A request in flight is over in the end, with a return or a throw; what
\* it waits for is its own transport call only, whatever other requests do;
\* a request on a miss goes from its fetch to the reading of the body to its
\* return, or throws from either wait, and the caches change only in the step
\* in which a request that has its response body returns.
C18_RequestsFinish ==
    /\ \A r \in Handlers : (pc[r] # "idle") ~> (pc[r] = "idle")
    /\ [](\A r \in Handlers :
             /\ pc[r] = "fetching" =>
                   /\ ENABLED HistoryFetchResolve(r) \/ ENABLED DoubanFetchResolve(r)
                   /\ ENABLED HistoryFetchReject(r) \/ ENABLED DoubanFetchReject(r)
             /\ pc[r] = "parsing" => ENABLED BodySettles(r))
    /\ [][/\ \A r \in Handlers :
                /\ pc[r] = "idle" => pc'[r] \in {"idle", "fetching"}
                /\ pc[r] = "fetching" => pc'[r] \in {"fetching", "parsing", "idle"}
                /\ pc[r] = "parsing" => pc'[r] \in {"parsing", "idle"}
                /\ (pc[r] # "idle" /\ pc'[r] = "idle") => event'.type \in {"return", "throw"}
                /\ (pc[r] = "fetching" /\ pc'[r] = "idle") => event'.type = "throw"
          /\ (hcache' # hcache \/ dcache' # dcache) =>
                /\ event'.type = "return" /\ event'.stores = 1
                /\ \E r \in Handlers : pc[r] = "parsing" /\ pc'[r] = "idle"]_vars

\* Every handler is in flight at once, on one key.
C18_Witness ==
    /\ \A r \in Handlers : pc[r] # "idle"
    /\ \A r, q \in Handlers : arg[r] = arg[q]
    /\ \E r \in Handlers : pc[r] = "parsing"

====
